---------------------------- MODULE Spec2Model ----------------------------
(***************************************************************************)
(* Model of src/smartcontract/nativevm/governanceContractTxBuilder.ts and  *)
(* of the BigInt class that follows it in the same file: the governance    *)
(* transaction builders, the storage queries, the governance record codecs *)
(* and the big-integer codec.                                              *)
(*                                                                         *)
(* Hex strings are sequences of hex digits 0..15 (two digits per byte).    *)
(* An optional value is a sequence of length 0 (absent) or 1 (present).    *)
(***************************************************************************)
EXTENDS Integers, Sequences, FiniteSets, TLC

VARIABLES
    pc,              \* position of the running call
    error,           \* the error the call threw, if any
    input,           \* the arguments of the running call
    bigint,          \* the BigInt instance constructed, if any
    hexstr,          \* the hex string produced by a serialize/toHexstr call
    decoded,         \* the value a decode produced, if any
    struct,          \* the Struct's field list (builders)
    params,          \* the parameter blob built from the struct
    tx,              \* the transaction returned by a builder
    fetches,         \* storage keys handed to restClient.getStorage, in order
    responses,       \* the Results the fetches returned, in order
    storage,         \* what the contract storage holds for the running query
    governanceView,  \* getPeerPoolMap's local governanceView
    result,          \* the value a query returned
    reader,          \* the StringReader of the running decode: its string and cursor
    reads            \* the values the running decode has read so far, in order

vars == <<pc, error, input, bigint, hexstr, decoded, struct, params, tx,
          fetches, responses, storage, governanceView, result, reader, reads>>

None == <<>>
Some(x) == <<x>>

\* no call has been made
Init ==
    /\ pc = "idle"
    /\ error = None
    /\ input = None
    /\ bigint = None
    /\ hexstr = None
    /\ decoded = None
    /\ struct = None
    /\ params = None
    /\ tx = None
    /\ fetches = <<>>
    /\ responses = <<>>
    /\ storage = None
    /\ governanceView = None
    /\ result = None
    /\ reader = None
    /\ reads = <<>>

-----------------------------------------------------------------------------
(* Bounds of the model.                                                    *)

\* largest integer handed to the BigInt constructor
MaxN == 4400

-----------------------------------------------------------------------------
(* Hex-string helpers of utils (not part of the source slice).             *)

HexDigit == 0..15

RECURSIVE reverseHex(_)
\* reverseHex: the bytes (digit pairs) of a hex string in reverse order
reverseHex(hex) ==
    IF Len(hex) < 2 THEN hex
    ELSE reverseHex(SubSeq(hex, 3, Len(hex))) \o SubSeq(hex, 1, 2)

RECURSIVE HexVal(_)
\* parseInt(hex, 16) of a string of hex digits
HexVal(hex) ==
    IF Len(hex) = 0 THEN 0
    ELSE 16 * HexVal(SubSeq(hex, 1, Len(hex) - 1)) + hex[Len(hex)]

RECURSIVE ToHex(_)
\* Number.prototype.toString(16): the minimal hex digits, "0" for zero
ToHex(n) ==
    IF n < 16 THEN <<n>> ELSE ToHex(n \div 16) \o <<n % 16>>

-----------------------------------------------------------------------------
(* bignumber.js, as far as BigInt uses it.                                 *)

DecChar == <<"0", "1", "2", "3", "4", "5", "6", "7", "8", "9">>
NaNStr == <<"N", "a", "N">>

RECURSIVE ToDec(_)
ToDec(n) ==
    IF n < 10 THEN <<DecChar[n + 1]>>
    ELSE ToDec(n \div 10) \o <<DecChar[(n % 10) + 1]>>

IsDecStr(s) ==
    /\ Len(s) > 0
    /\ \A i \in 1..Len(s) : \E d \in 1..10 : DecChar[d] = s[i]

RECURSIVE DecVal(_)
DecVal(s) ==
    IF Len(s) = 0 THEN 0
    ELSE 10 * DecVal(SubSeq(s, 1, Len(s) - 1))
         + ((CHOOSE d \in 1..10 : DecChar[d] = s[Len(s)]) - 1)

BNaN == [nan |-> TRUE, neg |-> FALSE, int |-> 0, frac |-> 0]
BNat(n) == [nan |-> FALSE, neg |-> FALSE, int |-> n, frac |-> 0]

\* a JavaScript number: sign, integer part and first decimal digit, or NaN
Number(neg, int, frac) == [t |-> "number", nan |-> FALSE, neg |-> neg, int |-> int, frac |-> frac]
NumberNaN == [t |-> "number", nan |-> TRUE, neg |-> FALSE, int |-> 0, frac |-> 0]
String(s) == [t |-> "string", s |-> s]

\* new BigNumber(value) for a number or a decimal string
BigNumber(value) ==
    IF value.t = "number"
    THEN [nan |-> value.nan, neg |-> value.neg, int |-> value.int, frac |-> value.frac]
    ELSE IF IsDecStr(value.s) THEN BNat(DecVal(value.s)) ELSE BNaN

\* new BigNumber(hex, 16): an empty string is not a number
BigNumber16(hex) == IF Len(hex) = 0 THEN BNaN ELSE BNat(HexVal(hex))

isInteger(bn) == ~bn.nan /\ bn.frac = 0
\* the sign bit: true of -0 as well
isNegative(bn) == ~bn.nan /\ bn.neg
\* BigNumber.prototype.toString() of NaN or of a non-negative integer
toString(bn) == IF bn.nan THEN NaNStr ELSE ToDec(bn.int)
\* BigNumber.prototype.toString(16) of a non-negative integer
toString16(bn) == ToHex(bn.int)

-----------------------------------------------------------------------------
(* class BigInt                                                            *)

Thrown(e) == [ok |-> FALSE, err |-> e, val |-> None]
Returned(v) == [ok |-> TRUE, err |-> "", val |-> Some(v)]

NewBigIntSignUnchecked(value) ==
    LET bi == BigNumber(value) IN
    IF ~isInteger(bi)
    THEN Thrown("INVALID_PARAMS")
    ELSE Returned([value |-> value])

\* constructor(value)
NewBigInt(value) ==
    LET bi == BigNumber(value) IN
    IF ~isInteger(bi) \/ isNegative(bi)
    THEN Thrown("INVALID_PARAMS")
    ELSE Returned([value |-> value])

fromHexstrNoReverse(hex) ==
    NewBigInt(String(toString(BigNumber16(hex))))

\* static fromHexstr(hex)
fromHexstr(hex) ==
    LET h == reverseHex(hex)
        bi == toString(BigNumber16(h))
    IN NewBigInt(String(bi))

\* toHexstr()
toHexstr(this) ==
    LET bi == BigNumber(this.value)
        hex0 == toString16(bi)
        hex == IF Len(hex0) % 2 # 0 THEN <<0>> \o hex0 ELSE hex0
    IN reverseHex(hex)


-----------------------------------------------------------------------------
(* String and integer encodings of utils (not part of the source slice).   *)

\* the two hex digits of a byte
ByteHex(b) == <<b \div 16, b % 16>>

RECURSIVE Flatten(_)
\* the concatenation of a sequence of sequences
Flatten(ss) == IF Len(ss) = 0 THEN <<>> ELSE ss[1] \o Flatten(Tail(ss))

\* the UTF-8 bytes of one code point below 0x800, as hex digits
Utf8Char(c) ==
    IF c < 128 THEN ByteHex(c)
    ELSE ByteHex(192 + (c \div 64)) \o ByteHex(128 + (c % 64))

\* str2hexstr: the hex of a string's UTF-8 bytes; a string is a sequence of code points
str2hexstr(str) == Flatten([i \in 1..Len(str) |-> Utf8Char(str[i])])

RECURSIVE hexstr2str(_)
\* hexstr2str: the string whose UTF-8 bytes a hex string holds
hexstr2str(hex) ==
    IF Len(hex) < 2 THEN <<>>
    ELSE LET b == HexVal(SubSeq(hex, 1, 2)) IN
         IF b >= 192 /\ Len(hex) >= 4
         THEN <<(b - 192) * 64 + (HexVal(SubSeq(hex, 3, 4)) - 128)>>
              \o hexstr2str(SubSeq(hex, 5, Len(hex)))
         ELSE <<b>> \o hexstr2str(SubSeq(hex, 3, Len(hex)))

RECURSIVE PadHex(_, _)
PadHex(hex, digits) == IF Len(hex) >= digits THEN hex ELSE PadHex(<<0>> \o hex, digits)

\* num2hexstring(num, size, littleEndian): num in size bytes
num2hexstring(num, size, littleEndian) ==
    LET hex == PadHex(ToHex(num), size * 2) IN
    IF littleEndian THEN reverseHex(hex) ELSE hex

\* num2VarInt: the self-describing length prefix
num2VarInt(num) ==
    IF num < 253 THEN num2hexstring(num, 1, FALSE)
    ELSE IF num <= 65535 THEN <<15, 13>> \o num2hexstring(num, 2, TRUE)
    ELSE IF num \div 65536 <= 65535 THEN <<15, 14>> \o num2hexstring(num, 4, TRUE)
    ELSE <<15, 15>> \o num2hexstring(num, 8, TRUE)

\* hex2VarBytes: a byte string behind its length prefix
hex2VarBytes(hex) == num2VarInt(Len(hex) \div 2) \o hex

\* str2VarBytes: a string's UTF-8 bytes behind their length prefix
str2VarBytes(str) == hex2VarBytes(str2hexstr(str))

-----------------------------------------------------------------------------
(* Address, Struct, buildNativeCodeScript and makeNativeContractTx (not    *)
(* part of the source slice).                                              *)

\* an Address holds 20 bytes: here every byte is the same value b
AddressOf(b) == [value |-> Flatten([i \in 1..20 |-> ByteHex(b)])]

\* Address.serialize(): the 20 bytes, no length prefix
AddressSerialize(addr) == addr.value

\* the kinds of value a Struct holds
AddressField(hex) == [kind |-> "address", hex |-> hex, num |-> 0]
BytesField(hex) == [kind |-> "bytes", hex |-> hex, num |-> 0]
IntField(n) == [kind |-> "integer", hex |-> <<>>, num |-> n]

\* new Struct(): an empty field list
NewStruct == <<>>

\* Struct.add(...values): the values appended in call order
StructAdd(list, values) == list \o values

\* the encoding of one struct field
EncodeField(f) ==
    CASE f.kind = "address" -> f.hex
      [] f.kind = "bytes" -> hex2VarBytes(f.hex)
      [] f.kind = "integer" -> hex2VarBytes(toHexstr([value |-> Number(FALSE, f.num, 0)]))

\* buildNativeCodeScript([struct]): the field encodings in insertion order
buildNativeCodeScript(list) == Flatten([i \in 1..Len(list) |-> EncodeField(list[i])])

GOVERNANCE_CONTRACT == Flatten([i \in 1..19 |-> ByteHex(0)]) \o ByteHex(7)
contractAddress == [value |-> GOVERNANCE_CONTRACT]

\* makeNativeContractTx: the envelope around a parameter blob
makeNativeContractTx(funcName, blob, contract, gasPrice, gasLimit, payer) ==
    [funcName |-> funcName, params |-> blob, contract |-> contract,
     gasPrice |-> gasPrice, gasLimit |-> gasLimit, payer |-> payer]

-----------------------------------------------------------------------------
(* The vote and authorize builders.                                        *)

BuilderThrown(e) == [ok |-> FALSE, err |-> e, struct |-> None, params |-> None, tx |-> None]
BuilderReturned(list, blob, t) ==
    [ok |-> TRUE, err |-> "", struct |-> Some(list), params |-> Some(blob), tx |-> Some(t)]

\* for (const p of peerPubKeys) struct.add(str2hexstr(p))
KeyFields(peerPubKeys) == [i \in 1..Len(peerPubKeys) |-> BytesField(str2hexstr(peerPubKeys[i]))]
\* for (const n of posList) struct.add(n)
PosFields(posList) == [i \in 1..Len(posList) |-> IntField(posList[i])]

makeVoteForPeerTxAmountsFirst(userAddr, peerPubKeys, posList, payer, gasPrice, gasLimit) ==
    IF Len(peerPubKeys) # Len(posList) THEN BuilderThrown("INVALID_PARAMS")
    ELSE LET s1 == StructAdd(NewStruct, <<AddressField(AddressSerialize(userAddr))>>)
             s2 == StructAdd(s1, <<IntField(Len(posList))>>)
             s3 == StructAdd(s2, PosFields(posList))
             s4 == StructAdd(s3, <<IntField(Len(peerPubKeys))>>)
             s5 == StructAdd(s4, KeyFields(peerPubKeys))
             blob == buildNativeCodeScript(s5)
         IN BuilderReturned(s5, blob,
                makeNativeContractTx("voteForPeer", blob, contractAddress, gasPrice, gasLimit, payer))

makeVoteForPeerTx(userAddr, peerPubKeys, posList, payer, gasPrice, gasLimit) ==
    IF Len(peerPubKeys) # Len(posList) THEN BuilderThrown("INVALID_PARAMS")
    ELSE LET s1 == StructAdd(NewStruct, <<AddressField(AddressSerialize(userAddr))>>)
             s2 == StructAdd(s1, <<IntField(Len(peerPubKeys))>>)
             s3 == StructAdd(s2, KeyFields(peerPubKeys))
             s4 == StructAdd(s3, <<IntField(Len(posList))>>)
             s5 == StructAdd(s4, PosFields(posList))
             blob == buildNativeCodeScript(s5)
         IN BuilderReturned(s5, blob,
                makeNativeContractTx("voteForPeer", blob, contractAddress, gasPrice, gasLimit, payer))

makeUnvoteForPeerTx(userAddr, peerPubKeys, posList, payer, gasPrice, gasLimit) ==
    IF Len(peerPubKeys) # Len(posList) THEN BuilderThrown("INVALID_PARAMS")
    ELSE LET s1 == StructAdd(NewStruct, <<AddressField(AddressSerialize(userAddr))>>)
             s2 == StructAdd(s1, <<IntField(Len(peerPubKeys))>>)
             s3 == StructAdd(s2, KeyFields(peerPubKeys))
             s4 == StructAdd(s3, <<IntField(Len(posList))>>)
             s5 == StructAdd(s4, PosFields(posList))
             blob == buildNativeCodeScript(s5)
         IN BuilderReturned(s5, blob,
                makeNativeContractTx("unVoteForPeer", blob, contractAddress, gasPrice, gasLimit, payer))

makeWithdrawTx(userAddr, peerPubKeys, withdrawList, payer, gasPrice, gasLimit) ==
    IF Len(peerPubKeys) # Len(withdrawList) THEN BuilderThrown("INVALID_PARAMS")
    ELSE LET s1 == StructAdd(NewStruct, <<AddressField(AddressSerialize(userAddr))>>)
             s2 == StructAdd(s1, <<IntField(Len(peerPubKeys))>>)
             s3 == StructAdd(s2, KeyFields(peerPubKeys))
             s4 == StructAdd(s3, <<IntField(Len(withdrawList))>>)
             s5 == StructAdd(s4, PosFields(withdrawList))
             blob == buildNativeCodeScript(s5)
         IN BuilderReturned(s5, blob,
                makeNativeContractTx("withdraw", blob, contractAddress, gasPrice, gasLimit, payer))

makeAuthorizeForPeerTx(userAddr, peerPubKeyList, posList, payer, gasPrice, gasLimit) ==
    LET s1 == StructAdd(NewStruct, <<AddressField(AddressSerialize(userAddr))>>)
        s2 == StructAdd(s1, <<IntField(Len(peerPubKeyList))>>)
        s3 == StructAdd(s2, KeyFields(peerPubKeyList))
        s4 == StructAdd(s3, <<IntField(Len(posList))>>)
        s5 == StructAdd(s4, PosFields(posList))
        blob == buildNativeCodeScript(s5)
    IN BuilderReturned(s5, blob,
           makeNativeContractTx("authorizeForPeer", blob, contractAddress, gasPrice, gasLimit, payer))

makeUnauthorizeForPeerTx(userAddr, peerPubKeyList, posList, payer, gasPrice, gasLimit) ==
    LET s1 == StructAdd(NewStruct, <<AddressField(AddressSerialize(userAddr))>>)
        s2 == StructAdd(s1, <<IntField(Len(peerPubKeyList))>>)
        s3 == StructAdd(s2, KeyFields(peerPubKeyList))
        s4 == StructAdd(s3, <<IntField(Len(posList))>>)
        s5 == StructAdd(s4, PosFields(posList))
        blob == buildNativeCodeScript(s5)
    IN BuilderReturned(s5, blob,
           makeNativeContractTx("unAuthorizeForPeer", blob, contractAddress, gasPrice, gasLimit, payer))

-----------------------------------------------------------------------------
(* StringReader (not part of the source slice): a hex string and a cursor, *)
(* counted in hex digits. A read that asks for more bytes than remain      *)
(* fails with TruncatedInput.                                              *)

\* new StringReader(str)
StringReader(str) == [str |-> str, pos |-> 0]

ReadFailed(sr) == [ok |-> FALSE, err |-> "TruncatedInput", val |-> None, sr |-> sr]
ReadDone(v, sr) == [ok |-> TRUE, err |-> "", val |-> Some(v), sr |-> sr]

\* sr.read(bytes): the next bytes as hex
read(sr, bytes) ==
    IF sr.pos + 2 * bytes > Len(sr.str) THEN ReadFailed(sr)
    ELSE ReadDone(SubSeq(sr.str, sr.pos + 1, sr.pos + 2 * bytes),
                  [sr EXCEPT !.pos = sr.pos + 2 * bytes])

\* the little-endian unsigned integer a read returned
UintOf(r) == IF r.ok THEN ReadDone(HexVal(reverseHex(r.val[1])), r.sr) ELSE r

\* a little-endian unsigned integer of the given width
readUint(sr, bytes) == UintOf(read(sr, bytes))

\* sr.readInt() and sr.readUint32(): four bytes
readInt(sr) == readUint(sr, 4)
\* sr.readLong(): eight bytes
readLong(sr) == readUint(sr, 8)

\* the length that the marker byte b announces
LenByMarker(b, sr) ==
    IF b < 253 THEN ReadDone(b, sr)
    ELSE IF b = 253 THEN readUint(sr, 2)
    ELSE IF b = 254 THEN readUint(sr, 4)
    ELSE readUint(sr, 8)

NextLenOf(r) == IF r.ok THEN LenByMarker(HexVal(r.val[1]), r.sr) ELSE r

\* sr.readNextLen(): the self-describing length
readNextLen(sr) == NextLenOf(read(sr, 1))

NextBytesOf(r) == IF r.ok THEN read(r.sr, r.val[1]) ELSE r

\* sr.readNextBytes(): a length, then that many bytes
readNextBytes(sr) == NextBytesOf(readNextLen(sr))

AddressOfRead(r) == IF r.ok THEN ReadDone([value |-> r.val[1]], r.sr) ELSE r

\* Address.deserialize(sr): twenty bytes
AddressDeserialize(sr) == AddressOfRead(read(sr, 20))

\* one read of the named kind
ReadOne(sr, kind) ==
    CASE kind = "readInt" -> readInt(sr)
      [] kind = "readUint32" -> readInt(sr)
      [] kind = "readLong" -> readLong(sr)
      [] kind = "readNextLen" -> readNextLen(sr)
      [] kind = "readNextBytes" -> readNextBytes(sr)
      [] kind = "read(1)" -> read(sr, 1)
      [] kind = "Address.deserialize" -> AddressDeserialize(sr)

\* the values read so far, then the outcome of the reads that follow
ReadsJoin(v, rest) ==
    [ok |-> rest.ok, err |-> rest.err,
     vals |-> IF rest.ok THEN <<v>> \o rest.vals ELSE <<>>,
     sr |-> rest.sr]

RECURSIVE ReadAll(_, _), ReadNext(_, _)
\* the reads of a deserialize body one after the other; the first failing read
\* ends the body (the exception leaves the function)
ReadAll(sr, kinds) ==
    IF Len(kinds) = 0 THEN [ok |-> TRUE, err |-> "", vals |-> <<>>, sr |-> sr]
    ELSE ReadNext(ReadOne(sr, Head(kinds)), Tail(kinds))

ReadNext(r, kinds) ==
    IF ~r.ok THEN [ok |-> FALSE, err |-> r.err, vals |-> <<>>, sr |-> r.sr]
    ELSE ReadsJoin(r.val[1], ReadAll(r.sr, kinds))

-----------------------------------------------------------------------------
(* The governance records. A field is absent until assigned.               *)

\* new GovernanceView()
NewGovernanceView == [view |-> None, height |-> None, txhash |-> None]

\* GovernanceView.deserialize(sr)
GovernanceViewDeserializeOf(r) ==
    IF ~r.ok THEN ReadFailed(r.sr)
    ELSE ReadDone([NewGovernanceView EXCEPT
                      !.view = Some(r.vals[1]),
                      !.height = Some(r.vals[2]),
                      !.txhash = Some(r.vals[3])], r.sr)

\* the reads of GovernanceView.deserialize, in the order of its statements
GovernanceViewReads ==
    <<"readInt", "readInt", "readNextBytes">>

GovernanceViewDeserialize(sr) ==
    GovernanceViewDeserializeOf(ReadAll(sr, GovernanceViewReads))

\* GovernanceView.serialize()
GovernanceViewSerialize(this) ==
    num2hexstring(this.view[1], 4, TRUE)
    \o num2hexstring(this.height[1], 4, TRUE)
    \o hex2VarBytes(this.txhash[1])

\* new PeerPoolItem()
NewPeerPoolItem ==
    [index |-> None, peerPubkey |-> None, address |-> None, status |-> None,
     initPos |-> None, totalPos |-> None]

PeerPoolItemDeserializePosSwappedOf(r) ==
    IF ~r.ok THEN ReadFailed(r.sr)
    ELSE ReadDone([NewPeerPoolItem EXCEPT
                      !.index = Some(r.vals[1]),
                      !.peerPubkey = Some(hexstr2str(r.vals[2])),
                      !.address = Some(r.vals[3]),
                      !.status = Some(HexVal(r.vals[4])),
                      !.totalPos = Some(r.vals[5]),
                      !.initPos = Some(r.vals[6])], r.sr)

PeerPoolItemDeserializePosSwapped(sr) ==
    PeerPoolItemDeserializePosSwappedOf(ReadAll(sr, <<"readInt", "readNextBytes", "Address.deserialize",
                           "read(1)", "readLong", "readLong">>))

\* PeerPoolItem.deserialize(sr)
PeerPoolItemDeserializeOf(r) ==
    IF ~r.ok THEN ReadFailed(r.sr)
    ELSE ReadDone([NewPeerPoolItem EXCEPT
                      !.index = Some(r.vals[1]),
                      !.peerPubkey = Some(hexstr2str(r.vals[2])),
                      !.address = Some(r.vals[3]),
                      !.status = Some(HexVal(r.vals[4])),
                      !.initPos = Some(r.vals[5]),
                      !.totalPos = Some(r.vals[6])], r.sr)

\* the reads of PeerPoolItem.deserialize, in the order of its statements
PeerPoolItemReads ==
    <<"readInt", "readNextBytes", "Address.deserialize",
      "read(1)", "readLong", "readLong">>

PeerPoolItemDeserialize(sr) ==
    PeerPoolItemDeserializeOf(ReadAll(sr, PeerPoolItemReads))

\* PeerPoolItem.serialize()
PeerPoolItemSerialize(this) ==
    num2hexstring(this.index[1], 4, TRUE)
    \o str2VarBytes(this.peerPubkey[1])
    \o AddressSerialize(this.address[1])
    \o num2hexstring(this.status[1], 1, FALSE)
    \o num2hexstring(this.initPos[1], 8, TRUE)
    \o num2hexstring(this.totalPos[1], 8, TRUE)

\* new PeerAttributes()
NewPeerAttributes ==
    [peerPubkey |-> None, ifAuthorize |-> None, oldPeerCost |-> None,
     newPeerCost |-> None, setCostView |-> None, field1 |-> None, field2 |-> None,
     field3 |-> None, field4 |-> None]

\* PeerAttributes.deserialize(sr)
PeerAttributesDeserializeOf(r) ==
    IF ~r.ok THEN ReadFailed(r.sr)
    ELSE ReadDone([NewPeerAttributes EXCEPT
                      !.peerPubkey = Some(hexstr2str(r.vals[1])),
                      !.ifAuthorize = Some(r.vals[2]),
                      !.oldPeerCost = Some(r.vals[3]),
                      !.newPeerCost = Some(r.vals[4]),
                      !.setCostView = Some(r.vals[5]),
                      !.field1 = Some(r.vals[6]),
                      !.field2 = Some(r.vals[7]),
                      !.field3 = Some(r.vals[8]),
                      !.field4 = Some(r.vals[9])], r.sr)

PeerAttributesReadsFlagOneByte ==
    <<"readNextBytes", "read(1)", "readLong", "readLong",
      "readUint32", "readNextBytes", "readNextBytes",
      "readNextBytes", "readNextBytes">>

\* the reads of PeerAttributes.deserialize, in the order of its statements
PeerAttributesReads ==
    <<"readNextBytes", "readNextLen", "readLong", "readLong",
      "readUint32", "readNextBytes", "readNextBytes",
      "readNextBytes", "readNextBytes">>

PeerAttributesDeserialize(sr) ==
    PeerAttributesDeserializeOf(ReadAll(sr, PeerAttributesReads))

\* new SplitFeeAddress(): amount starts at 0
NewSplitFeeAddress == [address |-> None, amount |-> Some(0)]

\* SplitFeeAddress.deserialize(sr)
SplitFeeAddressDeserializeOf(r) ==
    IF ~r.ok THEN ReadFailed(r.sr)
    ELSE ReadDone([NewSplitFeeAddress EXCEPT
                      !.address = Some(r.vals[1]),
                      !.amount = Some(r.vals[2])], r.sr)

\* the reads of SplitFeeAddress.deserialize, in the order of its statements
SplitFeeAddressReads ==
    <<"Address.deserialize", "readLong">>

SplitFeeAddressDeserialize(sr) ==
    SplitFeeAddressDeserializeOf(ReadAll(sr, SplitFeeAddressReads))

\* new AuthorizeInfo()
NewAuthorizeInfo ==
    [peerPubkey |-> None, address |-> None, consensusPos |-> None, freezePos |-> None,
     newPos |-> None, withdrawPos |-> None, withdrawFreezePos |-> None,
     withdrawUnfreezePos |-> None]

\* AuthorizeInfo.deserialize(sr)
AuthorizeInfoDeserializeOf(r) ==
    IF ~r.ok THEN ReadFailed(r.sr)
    ELSE ReadDone([NewAuthorizeInfo EXCEPT
                      !.peerPubkey = Some(hexstr2str(r.vals[1])),
                      !.address = Some(r.vals[2]),
                      !.consensusPos = Some(r.vals[3]),
                      !.freezePos = Some(r.vals[4]),
                      !.newPos = Some(r.vals[5]),
                      !.withdrawPos = Some(r.vals[6]),
                      !.withdrawFreezePos = Some(r.vals[7]),
                      !.withdrawUnfreezePos = Some(r.vals[8])], r.sr)

AuthorizeInfoDeserializeLenient(sr) ==
    IF ReadAll(sr, <<"readNextBytes", "Address.deserialize", "readLong",
                           "readLong", "readLong", "readLong", "readLong",
                           "readLong">>).ok
    THEN AuthorizeInfoDeserializeOf(ReadAll(sr, <<"readNextBytes", "Address.deserialize", "readLong",
                           "readLong", "readLong", "readLong", "readLong",
                           "readLong">>))
    ELSE ReadDone(NewAuthorizeInfo, sr)

\* the reads of AuthorizeInfo.deserialize, in the order of its statements
AuthorizeInfoReads ==
    <<"readNextBytes", "Address.deserialize", "readLong",
      "readLong", "readLong", "readLong", "readLong",
      "readLong">>

AuthorizeInfoDeserialize(sr) ==
    AuthorizeInfoDeserializeOf(ReadAll(sr, AuthorizeInfoReads))

-----------------------------------------------------------------------------
(* The builders driven by a caller.                                        *)

\* longest identity list and longest amount list handed to a builder
MaxList == 3

RECURSIVE SeqsOfLen(_, _)
SeqsOfLen(S, n) ==
    IF n = 0 THEN {<<>>}
    ELSE {<<x>> \o t : x \in S, t \in SeqsOfLen(S, n - 1)}

SeqsUpTo(S, n) == UNION {SeqsOfLen(S, k) : k \in 0..n}

\* peer identities: "a" and "éb" (a two-byte UTF-8 character, then "b")
PeerKeys == {<<97>>, <<233, 98>>}
\* amounts whose encodings differ in length
Amounts == {0, 1, 257}
UserAddrs == {AddressOf(1)}
Payer == AddressOf(2)
GasPrice == "500"
GasLimit == "20000"

VoteBuilders == {"makeVoteForPeerTx", "makeUnvoteForPeerTx", "makeWithdrawTx"}
AuthorizeBuilders == {"makeAuthorizeForPeerTx", "makeUnauthorizeForPeerTx"}

\* the builder of that name applied to the arguments
CallBuilder(name, userAddr, peerPubKeys, posList) ==
    CASE name = "makeVoteForPeerTx" ->
            makeVoteForPeerTx(userAddr, peerPubKeys, posList, Payer, GasPrice, GasLimit)
      [] name = "makeUnvoteForPeerTx" ->
            makeUnvoteForPeerTx(userAddr, peerPubKeys, posList, Payer, GasPrice, GasLimit)
      [] name = "makeWithdrawTx" ->
            makeWithdrawTx(userAddr, peerPubKeys, posList, Payer, GasPrice, GasLimit)
      [] name = "makeAuthorizeForPeerTx" ->
            makeAuthorizeForPeerTx(userAddr, peerPubKeys, posList, Payer, GasPrice, GasLimit)
      [] name = "makeUnauthorizeForPeerTx" ->
            makeUnauthorizeForPeerTx(userAddr, peerPubKeys, posList, Payer, GasPrice, GasLimit)

OtherThanBuilder == <<bigint, hexstr, decoded, fetches, responses, storage, governanceView, result, reader, reads>>

\* a call of makeVoteForPeerTx: it returns a transaction or throws
VoteForPeer ==
    /\ pc = "idle"
    /\ \E a \in UserAddrs, ks \in SeqsUpTo(PeerKeys, MaxList), ps \in SeqsUpTo(Amounts, MaxList) :
        LET r == makeVoteForPeerTx(a, ks, ps, Payer, GasPrice, GasLimit) IN
        /\ struct' = r.struct
        /\ params' = r.params
        /\ tx' = r.tx
        /\ error' = IF r.ok THEN None ELSE Some(r.err)
        /\ pc' = IF r.ok THEN "returned" ELSE "thrown"
        /\ input' = Some([builder |-> "makeVoteForPeerTx", userAddr |-> a,
                          peerPubKeys |-> ks, posList |-> ps])
    /\ UNCHANGED OtherThanBuilder

\* a call of makeUnvoteForPeerTx: it returns a transaction or throws
UnvoteForPeer ==
    /\ pc = "idle"
    /\ \E a \in UserAddrs, ks \in SeqsUpTo(PeerKeys, MaxList), ps \in SeqsUpTo(Amounts, MaxList) :
        LET r == makeUnvoteForPeerTx(a, ks, ps, Payer, GasPrice, GasLimit) IN
        /\ struct' = r.struct
        /\ params' = r.params
        /\ tx' = r.tx
        /\ error' = IF r.ok THEN None ELSE Some(r.err)
        /\ pc' = IF r.ok THEN "returned" ELSE "thrown"
        /\ input' = Some([builder |-> "makeUnvoteForPeerTx", userAddr |-> a,
                          peerPubKeys |-> ks, posList |-> ps])
    /\ UNCHANGED OtherThanBuilder

\* a call of makeWithdrawTx: it returns a transaction or throws
Withdraw ==
    /\ pc = "idle"
    /\ \E a \in UserAddrs, ks \in SeqsUpTo(PeerKeys, MaxList), ps \in SeqsUpTo(Amounts, MaxList) :
        LET r == makeWithdrawTx(a, ks, ps, Payer, GasPrice, GasLimit) IN
        /\ struct' = r.struct
        /\ params' = r.params
        /\ tx' = r.tx
        /\ error' = IF r.ok THEN None ELSE Some(r.err)
        /\ pc' = IF r.ok THEN "returned" ELSE "thrown"
        /\ input' = Some([builder |-> "makeWithdrawTx", userAddr |-> a,
                          peerPubKeys |-> ks, posList |-> ps])
    /\ UNCHANGED OtherThanBuilder

\* a call of makeAuthorizeForPeerTx: it returns a transaction or throws
AuthorizeForPeer ==
    /\ pc = "idle"
    /\ \E a \in UserAddrs, ks \in SeqsUpTo(PeerKeys, MaxList), ps \in SeqsUpTo(Amounts, MaxList) :
        LET r == makeAuthorizeForPeerTx(a, ks, ps, Payer, GasPrice, GasLimit) IN
        /\ struct' = r.struct
        /\ params' = r.params
        /\ tx' = r.tx
        /\ error' = IF r.ok THEN None ELSE Some(r.err)
        /\ pc' = IF r.ok THEN "returned" ELSE "thrown"
        /\ input' = Some([builder |-> "makeAuthorizeForPeerTx", userAddr |-> a,
                          peerPubKeys |-> ks, posList |-> ps])
    /\ UNCHANGED OtherThanBuilder

\* a call of makeUnauthorizeForPeerTx: it returns a transaction or throws
UnauthorizeForPeer ==
    /\ pc = "idle"
    /\ \E a \in UserAddrs, ks \in SeqsUpTo(PeerKeys, MaxList), ps \in SeqsUpTo(Amounts, MaxList) :
        LET r == makeUnauthorizeForPeerTx(a, ks, ps, Payer, GasPrice, GasLimit) IN
        /\ struct' = r.struct
        /\ params' = r.params
        /\ tx' = r.tx
        /\ error' = IF r.ok THEN None ELSE Some(r.err)
        /\ pc' = IF r.ok THEN "returned" ELSE "thrown"
        /\ input' = Some([builder |-> "makeUnauthorizeForPeerTx", userAddr |-> a,
                          peerPubKeys |-> ks, posList |-> ps])
    /\ UNCHANGED OtherThanBuilder

NextBuilder ==
    \/ VoteForPeer
    \/ UnvoteForPeer
    \/ Withdraw
    \/ AuthorizeForPeer
    \/ UnauthorizeForPeer

SpecBuilder == Init /\ [][NextBuilder]_vars

\* C1: every vote/authorize-style builder called with an identity list and an
\* amount list of different lengths fails with InvalidParams before any field is
\* added to the struct: no parameter blob and no transaction is produced.
C1_MismatchRejected ==
    (pc \in {"returned", "thrown"}
        /\ Len(input[1].peerPubKeys) # Len(input[1].posList)) =>
            /\ pc = "thrown"
            /\ error = Some("INVALID_PARAMS")
            /\ struct = None
            /\ params = None
            /\ tx = None

Perms(n) == {f \in [1..n -> 1..n] : \A i, j \in 1..n : f[i] = f[j] => i = j}
Permuted(list, f) == [i \in 1..Len(list) |-> list[f[i]]]

\* the field list the vote-style builders are to produce
VoteFields(userAddr, peerPubKeys, posList) ==
    <<AddressField(userAddr.value), IntField(Len(peerPubKeys))>>
    \o [i \in 1..Len(peerPubKeys) |-> BytesField(str2hexstr(peerPubKeys[i]))]
    \o <<IntField(Len(posList))>>
    \o [i \in 1..Len(posList) |-> IntField(posList[i])]

\* C9: a vote-style builder given equal-length lists fills the struct with the user
\* address, the number of identities, the identities in list order, the number of
\* amounts and the amounts in list order; the blob is the concatenation of the
\* field encodings in that order, and a call whose lists are a different ordering
\* of the same elements produces a different blob.
C9_FieldOrder ==
    (pc \in {"returned", "thrown"}
        /\ input[1].builder \in VoteBuilders
        /\ Len(input[1].peerPubKeys) = Len(input[1].posList)) =>
        LET in == input[1]
            n == Len(in.peerPubKeys)
        IN  /\ pc = "returned"
            /\ struct = Some(VoteFields(in.userAddr, in.peerPubKeys, in.posList))
            /\ params = Some(Flatten([i \in 1..Len(struct[1]) |-> EncodeField(struct[1][i])]))
            /\ tx # None
            /\ tx[1].params = params[1]
            /\ \A ks \in {Permuted(in.peerPubKeys, f) : f \in Perms(n)},
                  ps \in {Permuted(in.posList, g) : g \in Perms(n)} :
                (ks # in.peerPubKeys \/ ps # in.posList) =>
                    CallBuilder(in.builder, in.userAddr, ks, ps).params # params

\* C9 witness: a vote with two distinct identities and two distinct amounts returned.
C9_Witness ==
    /\ pc = "returned"
    /\ input[1].builder = "makeVoteForPeerTx"
    /\ input[1].peerPubKeys = <<<<97>>, <<233, 98>>>>
    /\ input[1].posList = <<257, 1>>
    /\ params # None

-----------------------------------------------------------------------------
(* A peer-pool entry serialized and read back.                             *)

\* longest peerPubkey string of the generated records, in characters
MaxStrLen == 2

\* identity strings over "a" and "é", and "abc"
ItemKeys == SeqsUpTo({97, 233}, MaxStrLen) \cup {<<97, 98, 99>>}

\* the peer-pool entries handed to serialize
PoolItems ==
    {[index |-> Some(i), peerPubkey |-> Some(k), address |-> Some(AddressOf(a)),
      status |-> Some(st), initPos |-> Some(ip), totalPos |-> Some(tp)] :
        i \in {0, 1, 258}, k \in ItemKeys, a \in {0, 171}, st \in {0, 1, 255},
        ip \in {0, 1000}, tp \in {0, 2000, 65536}}

OtherThanItem == <<bigint, struct, params, tx, fetches, responses, storage, governanceView, result, reader, reads>>

\* a caller holds a peer-pool entry
ItemNew ==
    /\ pc = "idle"
    /\ \E r \in PoolItems : input' = Some(r)
    /\ pc' = "item"
    /\ UNCHANGED <<error, hexstr, decoded>>
    /\ UNCHANGED OtherThanItem

\* r.serialize()
ItemSerialize ==
    /\ pc = "item"
    /\ hexstr' = Some(PeerPoolItemSerialize(input[1]))
    /\ pc' = "serialized"
    /\ UNCHANGED <<error, input, decoded>>
    /\ UNCHANGED OtherThanItem

\* PeerPoolItem.deserialize(new StringReader(hex))
ItemDeserialize ==
    /\ pc = "serialized"
    /\ LET r == PeerPoolItemDeserialize(StringReader(hexstr[1])) IN
        /\ decoded' = r.val
        /\ error' = IF r.ok THEN None ELSE Some(r.err)
    /\ pc' = "deserialized"
    /\ UNCHANGED <<input, hexstr>>
    /\ UNCHANGED OtherThanItem

NextItem ==
    \/ ItemNew
    \/ ItemSerialize
    \/ ItemDeserialize

SpecItem == Init /\ [][NextItem]_vars

\* C5: PeerPoolItem.deserialize over r.serialize() returns a record equal to r
\* field for field (index, peerPubkey, address, status, initPos, totalPos).
C5_ItemRoundTrip ==
    pc = "deserialized" =>
        /\ error = None
        /\ decoded # None
        /\ decoded[1].index = input[1].index
        /\ decoded[1].peerPubkey = input[1].peerPubkey
        /\ decoded[1].address = input[1].address
        /\ decoded[1].status = input[1].status
        /\ decoded[1].initPos = input[1].initPos
        /\ decoded[1].totalPos = input[1].totalPos

\* C5 witness: the entry {index 1, "abc", twenty zero bytes, status 1, 1000, 2000}
\* was serialized and read back.
C5_Witness ==
    /\ pc = "deserialized"
    /\ input[1] = [index |-> Some(1), peerPubkey |-> Some(<<97, 98, 99>>),
                   address |-> Some(AddressOf(0)), status |-> Some(1),
                   initPos |-> Some(1000), totalPos |-> Some(2000)]
    /\ decoded # None

-----------------------------------------------------------------------------
(* The storage queries.                                                    *)

PEER_ATTRIBUTES == <<112, 101, 101, 114, 65, 116, 116, 114, 105, 98, 117, 116, 101, 115>>
SPLIT_FEE_ADDRESS == <<115, 112, 108, 105, 116, 70, 101, 101, 65, 100, 100, 114, 101, 115, 115>>
AUTHORIZE_INFO_POOL == <<97, 117, 116, 104, 111, 114, 105, 122, 101, 73, 110, 102, 111, 80, 111, 111, 108>>
\* 'governanceView' and 'peerPool'
GOVERNANCE_VIEW == <<103, 111, 118, 101, 114, 110, 97, 110, 99, 101, 86, 105, 101, 119>>
PEER_POOL == <<112, 101, 101, 114, 80, 111, 111, 108>>

\* a query returned a value, or threw
QueryOutcome(r) == [ok |-> r.ok, err |-> r.err, val |-> r.val]

\* getAttributes after the fetch: lines 383-388
getAttributesResult(res) ==
    IF Len(res) > 0
    THEN QueryOutcome(PeerAttributesDeserialize(StringReader(res)))
    ELSE Returned(NewPeerAttributes)

\* getSplitFeeAddress after the fetch: lines 397-402
getSplitFeeAddressResult(res) ==
    IF Len(res) > 0
    THEN QueryOutcome(SplitFeeAddressDeserialize(StringReader(res)))
    ELSE Returned(NewSplitFeeAddress)

\* getAuthorizeInfo after the fetch: lines 409-414
getAuthorizeInfoResult(res) ==
    IF Len(res) > 0
    THEN QueryOutcome(AuthorizeInfoDeserialize(StringReader(res)))
    ELSE Returned(NewAuthorizeInfo)

\* getPeerPoolMap after the view fetch: the pointer record of line 427
getPeerPoolMapView(view) == GovernanceViewDeserialize(StringReader(view))

poolKeyBigEndian(g) == str2hexstr(PEER_POOL) \o num2hexstring(g.view[1], 4, FALSE)

\* lines 428-430: keyP = key1 + key2
poolKey(g) == str2hexstr(PEER_POOL) \o num2hexstring(g.view[1], 4, TRUE)

MapPutKeepFirst(map, k, v) ==
    [x \in (DOMAIN map) \cup {k} |-> IF x \in DOMAIN map THEN map[x] ELSE v]

\* result[k] = v
MapPut(map, k, v) ==
    [x \in (DOMAIN map) \cup {k} |-> IF x = k THEN v ELSE map[x]]

RECURSIVE PoolLoop(_, _, _), PoolLoopNext(_, _, _)
\* lines 435-438: for (let i = 0; i < length; i++) with `remaining` rounds to go
PoolLoop(sr, remaining, map) ==
    IF remaining = 0 THEN ReadDone(map, sr)
    ELSE PoolLoopNext(PeerPoolItemDeserialize(sr), remaining, map)

PoolLoopNext(p, remaining, map) ==
    IF ~p.ok THEN ReadFailed(p.sr)
    ELSE PoolLoop(p.sr, remaining - 1, MapPut(map, p.val[1].peerPubkey[1], p.val[1]))

PoolAfterLength(length) ==
    IF ~length.ok THEN ReadFailed(length.sr)
    ELSE PoolLoop(length.sr, length.val[1], <<>>)

\* getPeerPoolMap after the pool fetch: lines 432-439
getPeerPoolMapResult(res) == QueryOutcome(PoolAfterLength(readInt(StringReader(res))))

-----------------------------------------------------------------------------
(* The contract storage the queries read: what the chain holds under the   *)
(* queried key, as the full record and the bytes of it that are delivered. *)

\* most entries in the peer pool
MaxPeers == 2

\* the first `bytes` bytes of a hex string
Prefix(hex, bytes) == SubSeq(hex, 1, 2 * bytes)
\* every prefix of a hex string, the empty one (record absent) and the whole included
Prefixes(hex) == {Prefix(hex, n) : n \in 0..(Len(hex) \div 2)}

\* the stored layout of a peer-attributes record
PeerAttributesEncode(a) ==
    str2VarBytes(a.peerPubkey[1])
    \o num2VarInt(a.ifAuthorize[1])
    \o num2hexstring(a.oldPeerCost[1], 8, TRUE)
    \o num2hexstring(a.newPeerCost[1], 8, TRUE)
    \o num2hexstring(a.setCostView[1], 4, TRUE)
    \o hex2VarBytes(a.field1[1]) \o hex2VarBytes(a.field2[1])
    \o hex2VarBytes(a.field3[1]) \o hex2VarBytes(a.field4[1])

\* the stored layout of a fee-split record
SplitFeeAddressEncode(a) ==
    AddressSerialize(a.address[1]) \o num2hexstring(a.amount[1], 8, TRUE)

\* the stored layout of an authorization record
AuthorizeInfoEncode(a) ==
    str2VarBytes(a.peerPubkey[1])
    \o AddressSerialize(a.address[1])
    \o num2hexstring(a.consensusPos[1], 8, TRUE)
    \o num2hexstring(a.freezePos[1], 8, TRUE)
    \o num2hexstring(a.newPos[1], 8, TRUE)
    \o num2hexstring(a.withdrawPos[1], 8, TRUE)
    \o num2hexstring(a.withdrawFreezePos[1], 8, TRUE)
    \o num2hexstring(a.withdrawUnfreezePos[1], 8, TRUE)

StoredAttributes ==
    {[peerPubkey |-> Some(k), ifAuthorize |-> Some(f), oldPeerCost |-> Some(100),
      newPeerCost |-> Some(50), setCostView |-> Some(258), field1 |-> Some(<<>>),
      field2 |-> Some(<<10, 11>>), field3 |-> Some(<<>>), field4 |-> Some(<<>>)] :
        k \in {<<97>>, <<233, 98>>}, f \in {0, 1}}

StoredSplitFees ==
    {[address |-> Some(AddressOf(a)), amount |-> Some(n)] : a \in {1}, n \in {0, 300}}

StoredAuthorizeInfos ==
    {[peerPubkey |-> Some(k), address |-> Some(AddressOf(1)), consensusPos |-> Some(1),
      freezePos |-> Some(2), newPos |-> Some(n), withdrawPos |-> Some(4),
      withdrawFreezePos |-> Some(5), withdrawUnfreezePos |-> Some(6)] :
        k \in {<<97>>, <<233, 98>>}, n \in {3, 257}}

StoredViews ==
    {[view |-> Some(v), height |-> Some(7), txhash |-> Some(<<10, 11>>)] : v \in {1, 258}}

\* two entries of the same identity and one of another
StoredItems ==
    {[index |-> Some(0), peerPubkey |-> Some(<<97>>), address |-> Some(AddressOf(0)),
      status |-> Some(1), initPos |-> Some(1000), totalPos |-> Some(2000)],
     [index |-> Some(1), peerPubkey |-> Some(<<97>>), address |-> Some(AddressOf(0)),
      status |-> Some(2), initPos |-> Some(1000), totalPos |-> Some(2000)],
     [index |-> Some(258), peerPubkey |-> Some(<<233, 98>>), address |-> Some(AddressOf(171)),
      status |-> Some(1), initPos |-> Some(0), totalPos |-> Some(65536)]}

\* the stored peer pool: the count, then the entries
PoolEncode(items) ==
    num2hexstring(Len(items), 4, TRUE)
    \o Flatten([i \in 1..Len(items) |-> PeerPoolItemSerialize(items[i])])

\* the storage behind a single-record query
RecordStorage(full, blob) ==
    [full |-> full, blob |-> blob, view |-> None, viewFull |-> <<>>, viewBlob |-> <<>>,
     items |-> <<>>]

\* the storage behind getPeerPoolMap
PoolStorage(view, viewBlob, items, blob) ==
    [full |-> PoolEncode(items), blob |-> blob, view |-> Some(view),
     viewFull |-> GovernanceViewSerialize(view), viewBlob |-> viewBlob, items |-> items]

\* the storages getPeerPoolMap may meet: a pointer record cut short, or a whole
\* one with a pool that is whole, cut short or absent
PoolStorages ==
    UNION {{PoolStorage(v, vb, <<>>, <<>>) : vb \in Prefixes(GovernanceViewSerialize(v))} :
        v \in StoredViews}
    \cup UNION {{PoolStorage(v, GovernanceViewSerialize(v), its, b) : b \in Prefixes(PoolEncode(its))} :
        v \in StoredViews, its \in SeqsUpTo(StoredItems, MaxPeers)}

\* restClient.getStorage(codeHash, key).Result against the storage of getPeerPoolMap
Lookup(st, key) ==
    IF key = str2hexstr(GOVERNANCE_VIEW) THEN st.viewBlob
    ELSE IF key = str2hexstr(PEER_POOL) \o num2hexstring(st.view[1].view[1], 4, TRUE) THEN st.blob
    ELSE <<>>

-----------------------------------------------------------------------------
(* The queries driven by a caller and by the node's answers.               *)

\* the peerPubKey (hex) and address arguments of the queries
QueryPubKey == <<0, 2, 10, 11>>
QueryAddress == AddressOf(1)

OtherThanQuery == <<bigint, hexstr, decoded, struct, params, tx, reader, reads>>

\* getAttributes up to its await: the key is built and the fetch issued
GetAttributes ==
    /\ pc = "idle"
    /\ \E rec \in StoredAttributes : \E blob \in Prefixes(PeerAttributesEncode(rec)) :
        storage' = Some(RecordStorage(PeerAttributesEncode(rec), blob))
    /\ input' = Some([query |-> "getAttributes", peerPubKey |-> Some(QueryPubKey), address |-> None])
    /\ fetches' = <<str2hexstr(PEER_ATTRIBUTES) \o QueryPubKey>>
    /\ pc' = "getAttributes"
    /\ UNCHANGED <<error, responses, governanceView, result>>
    /\ UNCHANGED OtherThanQuery

\* getAttributes from its await on: the Result is decoded or the default returned
GetAttributesFetched ==
    /\ pc = "getAttributes"
    /\ responses' = Append(responses, storage[1].blob)
    /\ result' = getAttributesResult(storage[1].blob).val
    /\ error' = IF getAttributesResult(storage[1].blob).ok THEN None
                ELSE Some(getAttributesResult(storage[1].blob).err)
    /\ pc' = IF getAttributesResult(storage[1].blob).ok THEN "returned" ELSE "thrown"
    /\ UNCHANGED <<input, fetches, storage, governanceView>>
    /\ UNCHANGED OtherThanQuery

\* getSplitFeeAddress up to its await: the key is built and the fetch issued
GetSplitFeeAddress ==
    /\ pc = "idle"
    /\ \E rec \in StoredSplitFees : \E blob \in Prefixes(SplitFeeAddressEncode(rec)) :
        storage' = Some(RecordStorage(SplitFeeAddressEncode(rec), blob))
    /\ input' = Some([query |-> "getSplitFeeAddress", peerPubKey |-> None, address |-> Some(QueryAddress)])
    /\ fetches' = <<str2hexstr(SPLIT_FEE_ADDRESS) \o AddressSerialize(QueryAddress)>>
    /\ pc' = "getSplitFeeAddress"
    /\ UNCHANGED <<error, responses, governanceView, result>>
    /\ UNCHANGED OtherThanQuery

\* getSplitFeeAddress from its await on: the Result is decoded or the default returned
GetSplitFeeAddressFetched ==
    /\ pc = "getSplitFeeAddress"
    /\ responses' = Append(responses, storage[1].blob)
    /\ result' = getSplitFeeAddressResult(storage[1].blob).val
    /\ error' = IF getSplitFeeAddressResult(storage[1].blob).ok THEN None
                ELSE Some(getSplitFeeAddressResult(storage[1].blob).err)
    /\ pc' = IF getSplitFeeAddressResult(storage[1].blob).ok THEN "returned" ELSE "thrown"
    /\ UNCHANGED <<input, fetches, storage, governanceView>>
    /\ UNCHANGED OtherThanQuery

\* getAuthorizeInfo up to its await: the key is built and the fetch issued
GetAuthorizeInfo ==
    /\ pc = "idle"
    /\ \E rec \in StoredAuthorizeInfos : \E blob \in Prefixes(AuthorizeInfoEncode(rec)) :
        storage' = Some(RecordStorage(AuthorizeInfoEncode(rec), blob))
    /\ input' = Some([query |-> "getAuthorizeInfo", peerPubKey |-> Some(QueryPubKey), address |-> Some(QueryAddress)])
    /\ fetches' = <<str2hexstr(AUTHORIZE_INFO_POOL) \o QueryPubKey \o AddressSerialize(QueryAddress)>>
    /\ pc' = "getAuthorizeInfo"
    /\ UNCHANGED <<error, responses, governanceView, result>>
    /\ UNCHANGED OtherThanQuery

\* getAuthorizeInfo from its await on: the Result is decoded or the default returned
GetAuthorizeInfoFetched ==
    /\ pc = "getAuthorizeInfo"
    /\ responses' = Append(responses, storage[1].blob)
    /\ result' = getAuthorizeInfoResult(storage[1].blob).val
    /\ error' = IF getAuthorizeInfoResult(storage[1].blob).ok THEN None
                ELSE Some(getAuthorizeInfoResult(storage[1].blob).err)
    /\ pc' = IF getAuthorizeInfoResult(storage[1].blob).ok THEN "returned" ELSE "thrown"
    /\ UNCHANGED <<input, fetches, storage, governanceView>>
    /\ UNCHANGED OtherThanQuery

\* getPeerPoolMap up to its first await: the view fetch is issued
GetPeerPoolMap ==
    /\ pc = "idle"
    /\ \E st \in PoolStorages : storage' = Some(st)
    /\ input' = Some([query |-> "getPeerPoolMap", peerPubKey |-> None, address |-> None])
    /\ fetches' = <<str2hexstr(GOVERNANCE_VIEW)>>
    /\ pc' = "getPeerPoolMap:view"
    /\ UNCHANGED <<error, responses, governanceView, result>>
    /\ UNCHANGED OtherThanQuery

\* getPeerPoolMap between its awaits: the view is decoded and the pool fetch issued
GetPeerPoolMapViewFetched ==
    /\ pc = "getPeerPoolMap:view"
    /\ responses' = Append(responses, Lookup(storage[1], fetches[1]))
    /\ IF getPeerPoolMapView(Lookup(storage[1], fetches[1])).ok
       THEN /\ governanceView' = getPeerPoolMapView(Lookup(storage[1], fetches[1])).val
            /\ fetches' = Append(fetches, poolKey(governanceView'[1]))
            /\ pc' = "getPeerPoolMap:pool"
            /\ error' = None
       ELSE /\ error' = Some(getPeerPoolMapView(Lookup(storage[1], fetches[1])).err)
            /\ pc' = "thrown"
            /\ UNCHANGED <<governanceView, fetches>>
    /\ UNCHANGED <<input, storage, result>>
    /\ UNCHANGED OtherThanQuery

\* getPeerPoolMap from its second await on: the pool is decoded into the map
GetPeerPoolMapPoolFetched ==
    /\ pc = "getPeerPoolMap:pool"
    /\ responses' = Append(responses, Lookup(storage[1], fetches[2]))
    /\ result' = getPeerPoolMapResult(Lookup(storage[1], fetches[2])).val
    /\ error' = IF getPeerPoolMapResult(Lookup(storage[1], fetches[2])).ok THEN None
                ELSE Some(getPeerPoolMapResult(Lookup(storage[1], fetches[2])).err)
    /\ pc' = IF getPeerPoolMapResult(Lookup(storage[1], fetches[2])).ok THEN "returned" ELSE "thrown"
    /\ UNCHANGED <<input, fetches, storage, governanceView>>
    /\ UNCHANGED OtherThanQuery

Awaiting == {"getAttributes", "getSplitFeeAddress", "getAuthorizeInfo",
             "getPeerPoolMap:view", "getPeerPoolMap:pool"}

\* the awaited getStorage rejects: the query rejects with the transport's error
FetchRejected ==
    /\ pc \in Awaiting
    /\ error' = Some("NETWORK_ERROR")
    /\ pc' = "rejected"
    /\ UNCHANGED <<input, fetches, responses, storage, governanceView, result>>
    /\ UNCHANGED OtherThanQuery

NextQuery ==
    \/ GetAttributes
    \/ GetAttributesFetched
    \/ GetSplitFeeAddress
    \/ GetSplitFeeAddressFetched
    \/ GetAuthorizeInfo
    \/ GetAuthorizeInfoFetched
    \/ GetPeerPoolMap
    \/ GetPeerPoolMapViewFetched
    \/ GetPeerPoolMapPoolFetched
    \/ FetchRejected

SpecQuery == Init /\ [][NextQuery]_vars

Finished == pc \in {"returned", "thrown"}
Query == input[1].query
SingleRecordQueries == {"getAttributes", "getSplitFeeAddress", "getAuthorizeInfo"}

\* the value a query returns for an absent record
DefaultOf(query) ==
    CASE query = "getAttributes" -> NewPeerAttributes
      [] query = "getSplitFeeAddress" -> NewSplitFeeAddress
      [] query = "getAuthorizeInfo" -> NewAuthorizeInfo
      [] query = "getPeerPoolMap" -> <<>>

\* C6: for every storage query, when the storage fetch returns an empty result
\* the query returns the record type's default value: it does not fail and does
\* not decode the empty result.
C6_EmptyGivesDefault ==
    (Finished /\ Len(responses) > 0 /\ responses[Len(responses)] = <<>>) =>
        /\ pc = "returned"
        /\ error = None
        /\ result = Some(DefaultOf(Query))

\* the whole pool was delivered to getPeerPoolMap and it returned
PoolReturned ==
    /\ pc = "returned"
    /\ Query = "getPeerPoolMap"
    /\ storage[1].blob = storage[1].full

ItemKey(items, i) == items[i].peerPubkey[1]

\* C7 as stated: from a pool blob of N well-formed entries getPeerPoolMap returns a
\* mapping of N entries, one per decoded entry, each key mapped to the entry that
\* carries it.
C7_OneEntryPerItem ==
    PoolReturned =>
        LET items == storage[1].items IN
        /\ result # None
        /\ Cardinality(DOMAIN result[1]) = Len(items)
        /\ \A i \in 1..Len(items) : result[1][ItemKey(items, i)] = items[i]

\* C7 amended: getPeerPoolMap decodes the N entries in blob order from the one
\* reader and returns a mapping whose keys are the identities of the entries, each
\* mapped to the last entry in blob order that carries it; the mapping has N
\* entries when the identities are pairwise distinct and fewer otherwise.
C7_LastEntryPerIdentity ==
    PoolReturned =>
        LET items == storage[1].items
            n == Len(items)
        IN
        /\ result # None
        /\ responses = <<storage[1].viewFull, storage[1].full>>
        /\ DOMAIN result[1] = {ItemKey(items, i) : i \in 1..n}
        /\ \A i \in 1..n :
            (\A j \in (i + 1)..n : ItemKey(items, j) # ItemKey(items, i)) =>
                result[1][ItemKey(items, i)] = items[i]
        /\ (\A i, j \in 1..n : ItemKey(items, i) = ItemKey(items, j) => i = j) <=>
                Cardinality(DOMAIN result[1]) = n

\* C7 witness: a pool of two entries with the same identity was decoded.
C7_Witness ==
    /\ PoolReturned
    /\ Len(storage[1].items) = 2
    /\ DOMAIN result[1] = {<<97>>}
    /\ result[1][<<97>>].status = Some(2)

\* every field of a record was assigned
AllSet(rec) == \A f \in DOMAIN rec : rec[f] # None

Truncated ==
    /\ pc = "thrown"
    /\ error = Some("TruncatedInput")
    /\ result = None

\* C8: a record decode is all or nothing: a reader that holds fewer bytes than the
\* record's fields require makes the decode fail with TruncatedInput and no
\* record, partly filled or not, is returned; in getPeerPoolMap a truncation in
\* any entry fails the whole query and no partial mapping is returned.
C8_AllOrNothing ==
    Finished =>
        /\ (Query \in SingleRecordQueries
                /\ Len(storage[1].blob) > 0
                /\ storage[1].blob # storage[1].full) => Truncated
        /\ (Query \in SingleRecordQueries /\ pc = "returned" /\ Len(storage[1].blob) > 0) =>
                AllSet(result[1])
        /\ (Query = "getPeerPoolMap" /\ storage[1].viewBlob # storage[1].viewFull) =>
                Truncated /\ governanceView = None
        /\ (Query = "getPeerPoolMap" /\ storage[1].viewBlob = storage[1].viewFull) =>
                /\ governanceView # None
                /\ AllSet(governanceView[1])
                /\ storage[1].blob # storage[1].full => Truncated
                /\ pc = "returned" => \A k \in DOMAIN result[1] : AllSet(result[1][k])

\* C8 witness: getPeerPoolMap met a pool of two entries cut inside the second
\* entry, and threw.
C8_Witness ==
    /\ pc = "thrown"
    /\ Query = "getPeerPoolMap"
    /\ Len(storage[1].items) = 2
    /\ Len(storage[1].blob) > 8 + Len(PeerPoolItemSerialize(storage[1].items[1]))
    /\ Len(storage[1].blob) < Len(storage[1].full)
    /\ result = None

\* the four little-endian bytes of v
FourBytesLE(v) == Flatten([i \in 1..4 |-> ByteHex((v \div (256 ^ (i - 1))) % 256)])

\* C10: getPeerPoolMap issues the pool fetch only after the governance-view fetch
\* has completed and its result has been decoded into the pointer record; the pool
\* key is the hex of 'peerPool' followed by the decoded view as four little-endian
\* bytes; when the view fetch or its decode fails no pool fetch is issued.
C10_PoolAfterView ==
    (pc # "idle" /\ Query = "getPeerPoolMap") =>
        /\ Len(fetches) \in {1, 2}
        /\ fetches[1] = str2hexstr(GOVERNANCE_VIEW)
        /\ Len(fetches) = 2 =>
            /\ Len(responses) >= 1
            /\ responses[1] = storage[1].viewFull
            /\ governanceView = storage[1].view
            /\ fetches[2] = str2hexstr(PEER_POOL) \o FourBytesLE(governanceView[1].view[1])
        /\ ((Len(responses) >= 1 /\ responses[1] # storage[1].viewFull)
                \/ (pc = "rejected" /\ Len(responses) = 0)) =>
            /\ Len(fetches) = 1
            /\ governanceView = None
        /\ pc = "getPeerPoolMap:pool" => Len(fetches) = 2

\* C10 witness: the pool fetch for view 258 is in flight.
C10_Witness ==
    /\ pc = "getPeerPoolMap:pool"
    /\ governanceView # None
    /\ governanceView[1].view = Some(258)
    /\ fetches = <<str2hexstr(GOVERNANCE_VIEW),
                   str2hexstr(PEER_POOL) \o <<0, 2, 0, 1, 0, 0, 0, 0>>>>

-----------------------------------------------------------------------------
(* The big-integer codec driven by a caller: construct, encode, decode.    *)

\* largest magnitude of the negative and fractional constructor arguments
MaxBad == 2
\* longest hex string (in bytes) handed directly to fromHexstr
MaxRawBytes == 2

\* values of three and four bytes, of odd and even digit counts
LargeArgs == {65535, 65536, 1048575, 1048576, 16777216, 305419896, 2147483647}

\* the values handed to the constructor
BigIntArgs ==
    {Number(FALSE, n, 0) : n \in (0..MaxN) \cup LargeArgs}
    \cup {Number(TRUE, n, 0) : n \in 0..MaxBad}
    \cup {Number(neg, n, 5) : neg \in BOOLEAN, n \in 0..MaxBad}
    \cup {NumberNaN}

RawDigit == {0, 1, 15}

RECURSIVE RawHexOfLen(_)
RawHexOfLen(n) ==
    IF n = 0 THEN {<<>>}
    ELSE {<<a, b>> \o h : a \in RawDigit, b \in RawDigit, h \in RawHexOfLen(n - 1)}

\* the hex strings handed directly to fromHexstr
RawHex == UNION {RawHexOfLen(n) : n \in 0..MaxRawBytes}

OtherThanBigInt == <<struct, params, tx, fetches, responses, storage, governanceView, result, reader, reads>>

\* new BigInt(value)
BigIntNew(value) ==
    /\ pc = "idle"
    /\ LET r == NewBigInt(value) IN
        /\ input' = Some(value)
        /\ bigint' = r.val
        /\ error' = IF r.ok THEN None ELSE Some(r.err)
        /\ pc' = IF r.ok THEN "built" ELSE "failed"
    /\ UNCHANGED <<hexstr, decoded>>
    /\ UNCHANGED OtherThanBigInt

\* bigint.toHexstr()
BigIntToHexstr ==
    /\ pc = "built"
    /\ hexstr' = Some(toHexstr(bigint[1]))
    /\ pc' = "encoded"
    /\ UNCHANGED <<error, input, bigint, decoded>>
    /\ UNCHANGED OtherThanBigInt

\* BigInt.fromHexstr(bigint.toHexstr())
BigIntRoundTrip ==
    /\ pc = "encoded"
    /\ LET r == fromHexstr(hexstr[1]) IN
        /\ decoded' = r.val
        /\ error' = IF r.ok THEN None ELSE Some(r.err)
    /\ pc' = "decoded"
    /\ UNCHANGED <<input, bigint, hexstr>>
    /\ UNCHANGED OtherThanBigInt

\* BigInt.fromHexstr(hex) on a hex string of the caller
BigIntFromHexstr(hex) ==
    /\ pc = "idle"
    /\ LET r == fromHexstr(hex) IN
        /\ decoded' = r.val
        /\ error' = IF r.ok THEN None ELSE Some(r.err)
    /\ input' = Some(hex)
    /\ pc' = "parsed"
    /\ UNCHANGED <<bigint, hexstr>>
    /\ UNCHANGED OtherThanBigInt

NextBigInt ==
    \/ \E value \in BigIntArgs : BigIntNew(value)
    \/ BigIntToHexstr
    \/ BigIntRoundTrip
    \/ \E hex \in RawHex : BigIntFromHexstr(hex)

SpecBigInt == Init /\ [][NextBigInt]_vars

\* the argument is a non-negative integer in the numeric sense (-0 is 0)
IsNonNegativeInteger(value) ==
    /\ ~value.nan
    /\ value.frac = 0
    /\ (value.neg => value.int = 0)

\* the argument is numerically below zero
IsBelowZero(value) == ~value.nan /\ value.neg /\ (value.int > 0 \/ value.frac > 0)

\* C2: for every non-negative integer n, fromHexstr(new BigInt(n).toHexstr())
\* succeeds and holds a value numerically equal to n (here: n up to MaxN and the
\* larger values of LargeArgs).
C2_RoundTrip ==
    pc = "decoded" =>
        /\ error = None
        /\ decoded # None
        /\ BigNumber(decoded[1].value) = BNat(input[1].int)

\* C2 witness: a value of two bytes with distinct bytes went through the round trip.
C2_Witness ==
    /\ pc = "decoded"
    /\ input[1].int = 4097
    /\ hexstr = Some(<<0, 1, 1, 0>>)
    /\ decoded # None

\* C3: toHexstr of the big integer 0 is the empty byte sequence, and fromHexstr
\* of the empty byte sequence is a BigInt equal to 0 (no failure).
C3_ZeroIsEmpty ==
    /\ (pc = "encoded" /\ input[1].int = 0) => hexstr = Some(<<>>)
    /\ (pc = "parsed" /\ input[1] = <<>>) =>
            /\ error = None
            /\ decoded # None
            /\ BigNumber(decoded[1].value) = BNat(0)

\* C4 as stated: a negative or non-integral argument fails with InvalidValue and
\* yields no instance; every non-negative integer constructs; every instance holds
\* a non-negative integer and toHexstr on it does not fail.
C4_InvalidValue ==
    /\ (pc = "failed" /\ (IsBelowZero(input[1]) \/ ~IsNonNegativeInteger(input[1]))) =>
            error = Some("InvalidValue") /\ bigint = None
    /\ (pc \in {"built", "failed"} /\ IsNonNegativeInteger(input[1])) =>
            pc = "built" /\ bigint # None /\ error = None
    /\ bigint # None =>
            isInteger(BigNumber(bigint[1].value)) /\ ~isNegative(BigNumber(bigint[1].value))
    /\ pc = "encoded" => hexstr # None /\ error = None

\* C4 amended: an argument that is NaN, non-integral or carries a negative sign
\* (-0 included) fails with ERROR_CODE.INVALID_PARAMS at construction and yields no
\* instance; every integer with a positive sign constructs; every instance holds a
\* non-negative integer and toHexstr on it does not fail.
C4_InvalidParams ==
    /\ pc \in {"built", "failed"} =>
        IF input[1].nan \/ input[1].frac # 0 \/ input[1].neg
        THEN pc = "failed" /\ error = Some("INVALID_PARAMS") /\ bigint = None
                /\ hexstr = None
        ELSE pc = "built" /\ bigint = Some([value |-> input[1]]) /\ error = None
    /\ bigint # None =>
            isInteger(BigNumber(bigint[1].value)) /\ ~isNegative(BigNumber(bigint[1].value))
    /\ pc = "encoded" => hexstr # None /\ error = None

\* C4 witness: a negative argument was refused and no instance exists.
C4_Witness ==
    /\ pc = "failed"
    /\ input = Some(Number(TRUE, 1, 0))
    /\ error = Some("INVALID_PARAMS")
    /\ bigint = None

-----------------------------------------------------------------------------
(* A record decode followed read by read. The cursor pos counts hex        *)
(* digits, two to a byte.                                                  *)

RecordKinds ==
    {"GovernanceView", "PeerPoolItem", "PeerAttributes", "SplitFeeAddress", "AuthorizeInfo"}

\* the reads of each record's deserialize
ReadsOf(kind) ==
    CASE kind = "GovernanceView" -> GovernanceViewReads
      [] kind = "PeerPoolItem" -> PeerPoolItemReads
      [] kind = "PeerAttributes" -> PeerAttributesReads
      [] kind = "SplitFeeAddress" -> SplitFeeAddressReads
      [] kind = "AuthorizeInfo" -> AuthorizeInfoReads

\* the record each deserialize returns from the values it read
RecordOf(kind, r) ==
    CASE kind = "GovernanceView" -> GovernanceViewDeserializeOf(r)
      [] kind = "PeerPoolItem" -> PeerPoolItemDeserializeOf(r)
      [] kind = "PeerAttributes" -> PeerAttributesDeserializeOf(r)
      [] kind = "SplitFeeAddress" -> SplitFeeAddressDeserializeOf(r)
      [] kind = "AuthorizeInfo" -> AuthorizeInfoDeserializeOf(r)

\* the stored bytes of a record
EncodeOf(kind, a) ==
    CASE kind = "GovernanceView" -> GovernanceViewSerialize(a)
      [] kind = "PeerPoolItem" -> PeerPoolItemSerialize(a)
      [] kind = "PeerAttributes" -> PeerAttributesEncode(a)
      [] kind = "SplitFeeAddress" -> SplitFeeAddressEncode(a)
      [] kind = "AuthorizeInfo" -> AuthorizeInfoEncode(a)

\* peer attributes whose ifAuthorize takes one byte (0, 1) or three (253)
DecodeAttributes ==
    StoredAttributes
    \cup {[a EXCEPT !.ifAuthorize = Some(253)] : a \in StoredAttributes}

\* the records handed to a decode
DecodeRecords(kind) ==
    CASE kind = "GovernanceView" -> StoredViews
      [] kind = "PeerPoolItem" -> StoredItems
      [] kind = "PeerAttributes" -> DecodeAttributes
      [] kind = "SplitFeeAddress" -> StoredSplitFees
      [] kind = "AuthorizeInfo" -> StoredAuthorizeInfos

\* what the caller read from the reader before the decode: nothing, or one byte
Leads == {<<>>, <<0, 1>>}
\* bytes that follow the record in the reader's string
Trail == <<15, 15, 0, 0>>

OtherThanDecode ==
    <<bigint, hexstr, struct, params, tx, fetches, responses, storage, governanceView, result>>

\* a caller holds a reader over a record's bytes (whole or cut short, with or
\* without bytes after it) and calls deserialize(sr)
DecodeBegin ==
    /\ pc = "idle"
    /\ \E kind \in RecordKinds : \E rec \in DecodeRecords(kind) : \E lead \in Leads :
        \E blob \in Prefixes(lead \o EncodeOf(kind, rec) \o Trail) :
            /\ Len(blob) >= Len(lead)
            /\ input' = Some([kind |-> kind, record |-> rec, start |-> Len(lead)])
            /\ reader' = Some(read(StringReader(blob), Len(lead) \div 2).sr)
    /\ reads' = <<>>
    /\ pc' = "decoding"
    /\ UNCHANGED <<error, decoded>>
    /\ UNCHANGED OtherThanDecode

\* the next statement of deserialize: one read; a failing read throws, the last
\* read is followed by the return of the record
DecodeRead ==
    /\ pc = "decoding"
    /\ LET r == ReadOne(reader[1], ReadsOf(input[1].kind)[Len(reads) + 1]) IN
        /\ reader' = Some(r.sr)
        /\ IF ~r.ok
           THEN /\ pc' = "decode_thrown"
                /\ error' = Some(r.err)
                /\ UNCHANGED <<reads, decoded>>
           ELSE /\ reads' = Append(reads, r.val[1])
                /\ UNCHANGED error
                /\ IF Len(reads) + 1 = Len(ReadsOf(input[1].kind))
                   THEN /\ pc' = "decode_returned"
                        /\ decoded' = RecordOf(input[1].kind,
                                               [ok |-> TRUE, err |-> "", vals |-> reads',
                                                sr |-> r.sr]).val
                   ELSE /\ pc' = "decoding"
                        /\ UNCHANGED decoded
    /\ UNCHANGED input
    /\ UNCHANGED OtherThanDecode

NextDecode ==
    \/ DecodeBegin
    \/ DecodeRead

SpecDecode == Init /\ [][NextDecode]_vars

\* the stored size of each field of a record, in declaration order
LayoutOf(kind, a) ==
    CASE kind = "GovernanceView" ->
            <<num2hexstring(a.view[1], 4, TRUE), num2hexstring(a.height[1], 4, TRUE),
              hex2VarBytes(a.txhash[1])>>
      [] kind = "PeerPoolItem" ->
            <<num2hexstring(a.index[1], 4, TRUE), str2VarBytes(a.peerPubkey[1]),
              AddressSerialize(a.address[1]), num2hexstring(a.status[1], 1, FALSE),
              num2hexstring(a.initPos[1], 8, TRUE), num2hexstring(a.totalPos[1], 8, TRUE)>>
      [] kind = "PeerAttributes" ->
            <<str2VarBytes(a.peerPubkey[1]), num2VarInt(a.ifAuthorize[1]),
              num2hexstring(a.oldPeerCost[1], 8, TRUE),
              num2hexstring(a.newPeerCost[1], 8, TRUE),
              num2hexstring(a.setCostView[1], 4, TRUE),
              hex2VarBytes(a.field1[1]), hex2VarBytes(a.field2[1]),
              hex2VarBytes(a.field3[1]), hex2VarBytes(a.field4[1])>>
      [] kind = "SplitFeeAddress" ->
            <<AddressSerialize(a.address[1]), num2hexstring(a.amount[1], 8, TRUE)>>
      [] kind = "AuthorizeInfo" ->
            <<str2VarBytes(a.peerPubkey[1]), AddressSerialize(a.address[1]),
              num2hexstring(a.consensusPos[1], 8, TRUE),
              num2hexstring(a.freezePos[1], 8, TRUE),
              num2hexstring(a.newPos[1], 8, TRUE),
              num2hexstring(a.withdrawPos[1], 8, TRUE),
              num2hexstring(a.withdrawFreezePos[1], 8, TRUE),
              num2hexstring(a.withdrawUnfreezePos[1], 8, TRUE)>>

\* the size of the first k fields of the record being decoded
Consumed(k) == Len(Flatten(SubSeq(LayoutOf(input[1].kind, input[1].record), 1, k)))

\* the values PeerAttributes.deserialize reads from the bytes of record a
AttributesRead(a) ==
    <<str2hexstr(a.peerPubkey[1]), a.ifAuthorize[1], a.oldPeerCost[1], a.newPeerCost[1],
      a.setCostView[1], a.field1[1], a.field2[1], a.field3[1], a.field4[1]>>

\* C11: during a record decode the cursor never passes the end of the string and
\* stands, after k successful reads, at the start plus the size of the first k
\* fields; a peer-attributes decode that returns has read peerPubkey
\* (length-prefixed), ifAuthorize (var-length), oldPeerCost (8 bytes),
\* newPeerCost (8 bytes), setCostView (4 bytes) and field1..field4
\* (length-prefixed) in this order, and its cursor stands at the start plus the
\* sum of those sizes, whatever follows in the string.
C11_CursorExact ==
    reader # None =>
        /\ reader[1].pos <= Len(reader[1].str)
        /\ pc \in {"decoding", "decode_returned"} =>
               reader[1].pos = input[1].start + Consumed(Len(reads))
        /\ (pc = "decode_returned" /\ input[1].kind = "PeerAttributes") =>
               /\ reads = AttributesRead(input[1].record)
               /\ decoded = Some(input[1].record)
               /\ reader[1].pos = input[1].start + Len(PeerAttributesEncode(input[1].record))

\* C11 witness: a peer-attributes decode that began one byte into the string
\* returned a record with a three-byte ifAuthorize, 32 bytes further on, with
\* bytes left unread after it.
C11_Witness ==
    /\ pc = "decode_returned"
    /\ input[1].kind = "PeerAttributes"
    /\ input[1].start = 2
    /\ decoded[1].peerPubkey = Some(<<233, 98>>)
    /\ decoded[1].ifAuthorize = Some(253)
    /\ reader[1].pos = 66
    /\ Len(reader[1].str) > reader[1].pos

-----------------------------------------------------------------------------
(* Every operation together.                                               *)

Next ==
    \/ NextBuilder
    \/ NextItem
    \/ NextQuery
    \/ NextBigInt
    \/ NextDecode

Spec == Init /\ [][Next]_vars

=============================================================================
